---- MODULE Spec2Model ----
(***************************************************************************)
(* FactorioController (src/controller.py): a supervisor of one game-server *)
(* child process.  The controller is a single sequential thread; the child *)
(* (the engine), the players and the operator are its environment.         *)
(*                                                                         *)
(* Text is modelled by what the code does with it.  A line is the sequence *)
(* of its space-separated tokens (the text is the tokens joined by single  *)
(* spaces and ended by a newline).  A file name is the sequence of its     *)
(* underscore-separated tokens.  File contents are small integers.         *)
(***************************************************************************)
EXTENDS Integers, Sequences, FiniteSets, TLC

(* ------------------------------ bounds -------------------------------- *)
\* unread lines the players/engine may queue on the child's output on their own
MaxOut == 1
\* pending operator lines on the controller's console
MaxConsole == 1
\* wall-clock seconds that may pass
MaxTime == 1
\* times the engine may rewrite a file with new content
MaxContent == 2
\* archive entries present when the controller is constructed
MaxArchive0 == 12
\* autosave files present in the engine's save directory
MaxAuto == 2

(* ------------------------- program constants -------------------------- *)
MAX_MANUAL_SAVE == 100
FILE_PER_PAGE == 5

(* ------------------------------- text --------------------------------- *)
DATE == "2024-01-15"
TIME == "10:00:00"

\* words that str.isdigit() accepts, with their int() value
DigitValue(tok) ==
    CASE tok = "0" -> 0
      [] tok = "1" -> 1
      [] tok = "2" -> 2
      [] tok = "3" -> 3
      [] tok = "7" -> 7
      [] OTHER -> -1

isdigit(tok) == DigitValue(tok) >= 0

\* re: \d{4}-\d{2}-\d{2}
IsDate(tok) == tok = DATE
\* re: \d{2}:\d{2}:\d{2}
IsTime(tok) == tok = TIME
\* re: \[(\w+)\]  - whether the token is a bracketed word
IsTag(tok) == tok \in {"[CHAT]", "[JOIN]", "[LEAVE]"}
\* re: the group (\w+) captured inside the brackets
TagWord(tok) ==
    CASE tok = "[CHAT]" -> "CHAT"
      [] tok = "[JOIN]" -> "JOIN"
      [] tok = "[LEAVE]" -> "LEAVE"
      [] OTHER -> tok

\* the tokens of str.split("_")
SplitUnderscore(tok) ==
    CASE tok = "request_save" -> <<"request", "save">>
      [] tok = "my_save" -> <<"my", "save">>
      [] tok = "autosave_server" -> <<"autosave", "server">>
      [] OTHER -> <<tok>>

\* sep.join(parts) as a value: two joins are the same text iff they have the
\* same parts and, when there is more than one part, the same separator
Join(sep, parts) ==
    [sep |-> IF Len(parts) > 1 THEN sep ELSE "", parts |-> parts]

\* a token of a line as text
Text(tok) == Join("_", SplitUnderscore(tok))

(* ------------------------------- files -------------------------------- *)
\* shutil.copy2 copies content and modification time
File(content, mtime) == [content |-> content, mtime |-> mtime]

\* time.strftime("%Y_%m_%d_%H_%M_%S"): six underscore-separated tokens
strftime(year, minute, second) == <<year, 1, 15, 10, minute, second>>

\* f"{current_time}_{filename}_{commander}" as its underscore-separated tokens
ArchiveName(current_time, filename, commander) ==
    current_time \o SplitUnderscore(filename) \o SplitUnderscore(commander)

Entry(name, f) == [content |-> f.content, mtime |-> f.mtime, name |-> name]

\* the archive entries present when the controller is constructed: entry k was
\* saved k minutes before, alternately by a player and as a safety backup
OldEntry(k) ==
    Entry(ArchiveName(strftime(2024, 60 - k, 0),
                      IF k % 2 = 1 THEN "backup1" ELSE "autosave",
                      IF k % 2 = 1 THEN "alice" ELSE "server"),
          File(100 + k, 0 - k))

OldArchive(n) == [k \in 1..n |-> OldEntry(k)]

\* the files of the engine's save directory other than the authoritative one
AutosaveFile(k) == [content |-> 200 + k, mtime |-> 0 - k, name |-> <<"_autosave", k>>]
OtherSave == [content |-> 300, mtime |-> 0, name |-> <<"map", 2>>]

AnySaveFile(f) == TRUE
\* "_autosave" in str(path)
HasAutosaveMarker(f) == f.name[1] = "_autosave"

\* "autosave_server" not in str(path): the joined name holds the text
\* autosave_server exactly when two neighbouring tokens are autosave, server
\* (no other token of the model ends in autosave or starts with server)
HasAutosaveServer(e) ==
    \E i \in 7..(Len(e.name) - 1) : e.name[i] = "autosave" /\ e.name[i + 1] = "server"

\* sorted(files, key=os.path.getmtime, reverse=True): a stable sort, so files
\* of equal modification time keep their directory order.  The place of file
\* i in the result is the number of files that come before it.
Rank(files, i) ==
    Cardinality({j \in 1..Len(files) :
                    \/ files[j].mtime > files[i].mtime
                    \/ files[j].mtime = files[i].mtime /\ j < i})

SortDesc(files) ==
    [p \in 1..Len(files) |->
        files[CHOOSE i \in 1..Len(files) : Rank(files, i) = p - 1]]

\* the directory with file f written under its name: an existing file of that
\* name is overwritten in place, a new one takes directory position pos
PutFile(dir, f, pos) ==
    IF \E i \in 1..Len(dir) : dir[i].name = f.name
    THEN [i \in 1..Len(dir) |-> IF dir[i].name = f.name THEN f ELSE dir[i]]
    ELSE SubSeq(dir, 1, pos) \o <<f>> \o SubSeq(dir, pos + 1, Len(dir))

\* the same with the label taken up to the end of the name
parse_file_name_label_to_end(name) ==
    [save_name |-> Join(" ", SubSeq(name, 7, Len(name))),
     save_user |-> name[Len(name)],
     save_time |-> SubSeq(name, 1, 6)]

\* parse_file_name: (save_name, save_user, save_time) of an archive path
parse_file_name(name) ==
    [save_name |-> Join(" ", SubSeq(name, 7, Len(name) - 1)),
     save_user |-> name[Len(name)],
     save_time |-> SubSeq(name, 1, 6)]

(* ------------------------------- lines -------------------------------- *)
\* yyyy-mm-dd hh:mm:ss [CHAT] <username> message
ChatLine(username, message) == <<DATE, TIME, "[CHAT]", username>> \o message
JoinLine == <<DATE, TIME, "[JOIN]", "alice", "joined", "the", "game">>
LeaveLine == <<DATE, TIME, "[LEAVE]", "alice", "left", "the", "game">>
\* engine log lines: the one that ends a successful save, and any other
SavedLine == <<"Info", "AppManagerStates.cpp:", "Saving", "finished">>
LogLine == <<"Info", "AppManager.cpp:", "Saving", "game">>
\* the engine's console line for a message written to its input
EchoLine == ChatLine("<server>:", <<"text">>)
\* readline() at end of file returns the empty string
EOF == <<>>
\* cmd = None: wget_next_msg read nothing from the child
None == <<"None">>

\* what players and the engine write to the child's output on their own
ChildLines ==
    { ChatLine("alice", <<"!!save", "backup1">>),
      ChatLine("alice", <<"m">>),
      ChatLine("alice", <<"n">>),
      ChatLine("alice", <<"q">>),
      ChatLine("alice", <<"1">>),
      ChatLine("alice", <<"3">>),
      ChatLine("alice", <<"!!foobar">>),
      ChatLine("alice", <<"!!la", "abc">>),
      JoinLine,
      LeaveLine,
      LogLine }

\* what the operator types on the controller's console
ConsoleLines == { <<"/players">> }

\* sys.stdin.readline(): the text of the line, its newline included
readline(tokens) == [tokens |-> tokens, nl |-> TRUE]
\* print(text, file=f): the text and then a newline are written; as the lines
\* the reader of f gets: a text that ends in a newline is followed by an
\* empty line
print_lines(text) == IF text.nl THEN <<text.tokens, << >> >> ELSE <<text.tokens>>

\* re.match(pattern, cmd) with pattern
\*   (\d{4}-\d{2}-\d{2}) (\d{2}:\d{2}:\d{2}) \[(\w+)\] (.*?) (.*)
\* a username and a message need a space between them: five tokens at least
Matches(cmd) ==
    /\ Len(cmd) >= 5
    /\ IsDate(cmd[1])
    /\ IsTime(cmd[2])
    /\ IsTag(cmd[3])

\* match.groups(): group 3 is the word inside the brackets
Groups(cmd) ==
    [username |-> cmd[4], date |-> cmd[1], time |-> cmd[2],
     msg_type |-> TagWord(cmd[3]), messages |-> SubSeq(cmd, 5, Len(cmd))]

(* ------------------------- the controller's code ---------------------- *)
\* The code the controller still has to run is a sequence of instructions:
\* the calls that block or touch the child or the files, in program order.
\* (every record constructor of the module lists its fields in the order in
\* which their names first appear in the module, the order TLC keeps them in)
I(op, arg) == [op |-> op, arg |-> arg]
\* arguments that are a number, a string, a truth value
N(k) == [n |-> k]
S(str) == [s |-> str]
B(flag) == [b |-> flag]
\* no file
NoFile == [content |-> 0 - 1, mtime |-> 0, name |-> << >>]

RestoreMethods == {"load_last_save", "load_autosave", "load_requested_save"}

\* print(..., file=self.server.stdin); line = self.server.stdout.readline()
print_to_server(msg, username) ==
    << I("write", [msg |-> msg, to |-> username]), I("readline", S("echo")) >>

stop_server_no_wait == << I("send_signal", N(0)) >>
\* self.server.send_signal(signal.SIGINT); self.server.wait()
stop_server == << I("send_signal", N(0)), I("wait", N(0)) >>

\* self.server = subprocess.Popen(...)
start_server == << I("Popen", N(0)) >>

restart_server_skip_stop == start_server
restart_server == stop_server \o start_server

\* /server-save, three lines read, the last one decides the copy
save_current(filename, commander) ==
    << I("write", [msg |-> "/server-save", to |-> ""]),
       I("readline", S("save")),
       I("readline", S("save")),
       I("save_check", [filename |-> filename, commander |-> commander]) >>

load_last_save_no_backup ==
    << I("enter", [n |-> 0, m |-> "load_last_save", file |-> NoFile]) >>
    \o print_to_server("loading the last manual saved file", "")
    \o << I("sleep", N(1)) >>
    \o stop_server
    \o << I("copy_last_save", N(0)) >>
    \o start_server
    \o << I("leave", N(0)) >>

load_last_save ==
    << I("enter", [n |-> 0, m |-> "load_last_save", file |-> NoFile]) >>
    \o save_current("autosave", "server")
    \o print_to_server("loading the last manual saved file", "")
    \o << I("sleep", N(1)) >>
    \o stop_server
    \o << I("copy_last_save", N(0)) >>
    \o start_server
    \o << I("leave", N(0)) >>

load_autosave(target) ==
    << I("enter", [n |-> target, m |-> "load_autosave", file |-> NoFile]) >>
    \o save_current("autosave", "server")
    \o print_to_server("loading the autosave", "")
    \o << I("sleep", N(1)) >>
    \o stop_server
    \o << I("copy_autosave", N(target)) >>
    \o start_server
    \o << I("leave", N(0)) >>

load_requested_save(target_save) ==
    << I("enter", [n |-> 0, m |-> "load_requested_save", file |-> target_save]) >>
    \o save_current("autosave", "server")
    \o stop_server
    \o << I("copy_requested", target_save) >>
    \o start_server
    \o << I("leave", N(0)) >>

\* lines 330-336, then the loop of line 337
get_requested_save ==
    << I("enter", [n |-> 0, m |-> "get_requested_save", file |-> NoFile]), I("listdir", N(0)) >>
    \o print_to_server("choose the save you wish to recover", "")
    \o << I("render", N(0)) >>

\* the same, the handler passed whoever calls
wget_next_msg_always_handles(handle) == << I("select", B(TRUE)) >>

\* wget_next_msg(handle): the select of line 249, then one read per ready
\* stream; handle is whether a handler was passed (line 258)
wget_next_msg(handle) == << I("select", B(handle)) >>

\* lines 138-152: the record named token among the first of the listing
LookupLimit == 100
FoundAt(save_files, token) ==
    { i \in 1..Len(save_files) :
        /\ i - 1 <= LookupLimit
        /\ parse_file_name(save_files[i].name).save_name = Text(token)
        /\ \A j \in 1..(i - 1) :
              parse_file_name(save_files[j].name).save_name # Text(token) }

\* lines 98-162: the chain of elif branches, first match wins
Dispatch(messages, username, archive_dir) ==
    IF messages[1] = "!!restart" THEN
        print_to_server("Receive restart signal", "")
        \o << I("sleep", N(1)) >> \o restart_server
    ELSE IF messages[1] = "!!shutdown" THEN
        print_to_server("Receive shutdown signal", "")
        \o << I("sleep", N(1)) >> \o stop_server
    ELSE IF messages[1] = "!!la" /\ Len(messages) < 2 THEN
        << I("raise", S("IndexError")) >>
    ELSE IF messages[1] = "!!la" /\ isdigit(messages[2]) THEN
        print_to_server("Receive load_autosave signal", "")
        \o load_autosave(DigitValue(messages[2]))
    ELSE IF messages[1] = "!!la" THEN
        print_to_server("Receive load_autosave signal", "")
        \o load_autosave(1)
    ELSE IF messages[1] = "!!help" THEN
        print_to_server("!!shutdown", username)
        \o print_to_server("!!restart", username)
        \o print_to_server("!!la m", username)
        \o print_to_server("!!save", username)
        \o print_to_server("!!ls", username)
        \o print_to_server("!!ls ?", username)
    ELSE IF messages[1] = "!!save" THEN
        print_to_server("Receive save signal", "")
        \o save_current("request_save", username)
    ELSE IF messages[1] = "!!ls" /\ Len(messages) > 1 THEN
        IF messages[2] = "?" THEN get_requested_save
        ELSE LET save_files == SortDesc(archive_dir)
                 found == FoundAt(save_files, messages[2])
             IN  IF found # {}
                 THEN print_to_server("Receive load_last_save signal", "")
                      \o load_requested_save(save_files[CHOOSE i \in found : TRUE])
                 ELSE print_to_server("Cannot find the save file", "")
    ELSE IF messages[1] = "!!ls" THEN
        print_to_server("Receive load_last_save signal", "")
        \o load_last_save
    ELSE << >>

\* the kind as the pattern's third group captures it, without brackets
ChatKindBare == "CHAT"

\* the bracketed tag the kind of a chat line is compared with (line 97)
ChatKind == "[CHAT]"

\* the same, answering every line of another kind
handle_command_answers_all(cmd, archive_dir) ==
    IF ~Matches(cmd) THEN << >>
    ELSE LET g == Groups(cmd)
         IN  IF g.msg_type = ChatKind
             THEN Dispatch(g.messages, g.username, archive_dir)
             ELSE print_to_server("unknown command", "")

handle_command(cmd, archive_dir) ==
    IF ~Matches(cmd) THEN << >>
    ELSE LET g == Groups(cmd)
         IN  IF g.msg_type = ChatKind
             THEN Dispatch(g.messages, g.username, archive_dir)
             ELSE << >>

\* page_index None (quit) and req_index None (no selection)
NoPage == 0 - 1
NoReq == 0

\* the same with the last page taken to end one record later
handle_user_act_to_ls_off_by_one(tok, page_index, n_files) ==
    IF tok = "m" THEN
        IF page_index + FILE_PER_PAGE <= n_files
        THEN [page |-> page_index + FILE_PER_PAGE, req |-> NoReq, notes |-> << >>]
        ELSE [page |-> page_index, req |-> NoReq, notes |-> <<"ERROR: this is the last page.">>]
    ELSE IF tok = "n" THEN
        IF page_index - FILE_PER_PAGE >= 0
        THEN [page |-> page_index - FILE_PER_PAGE, req |-> NoReq, notes |-> << >>]
        ELSE [page |-> page_index, req |-> NoReq, notes |-> <<"ERROR: this is the first page.">>]
    ELSE IF tok = "q" THEN
        [page |-> NoPage, req |-> NoReq, notes |-> << >>]
    ELSE IF isdigit(tok) THEN
        IF DigitValue(tok) > FILE_PER_PAGE \/ DigitValue(tok) <= 0
        THEN [page |-> page_index, req |-> NoReq, notes |-> <<"invalid file number.">>]
        ELSE [page |-> page_index, req |-> DigitValue(tok), notes |-> << >>]
    ELSE [page |-> page_index, req |-> NoReq,
          notes |-> <<"you are currently in save recover mode.",
                      "choose the save you wish to recover.",
                      "enter the index to choose the save file">>]

\* the same with the previous page taken without the test of line 280
handle_user_act_to_ls_prev_unchecked(tok, page_index, n_files) ==
    IF tok = "m" THEN
        IF page_index + FILE_PER_PAGE < n_files
        THEN [page |-> page_index + FILE_PER_PAGE, req |-> NoReq, notes |-> << >>]
        ELSE [page |-> page_index, req |-> NoReq, notes |-> <<"ERROR: this is the last page.">>]
    ELSE IF tok = "n" THEN
        [page |-> page_index - FILE_PER_PAGE, req |-> NoReq, notes |-> << >>]
    ELSE IF tok = "q" THEN
        [page |-> NoPage, req |-> NoReq, notes |-> << >>]
    ELSE IF isdigit(tok) THEN
        IF DigitValue(tok) > FILE_PER_PAGE \/ DigitValue(tok) <= 0
        THEN [page |-> page_index, req |-> NoReq, notes |-> <<"invalid file number.">>]
        ELSE [page |-> page_index, req |-> DigitValue(tok), notes |-> << >>]
    ELSE [page |-> page_index, req |-> NoReq,
          notes |-> <<"you are currently in save recover mode.",
                      "choose the save you wish to recover.",
                      "enter the index to choose the save file">>]

\* handle_user_act_to_ls(cmd, page_index, n_files) with cmd[:-1] = tok:
\* (new_page_index, req_index) and the notifications it sends
handle_user_act_to_ls(tok, page_index, n_files) ==
    IF tok = "m" THEN
        IF page_index + FILE_PER_PAGE < n_files
        THEN [page |-> page_index + FILE_PER_PAGE, req |-> NoReq, notes |-> << >>]
        ELSE [page |-> page_index, req |-> NoReq, notes |-> <<"ERROR: this is the last page.">>]
    ELSE IF tok = "n" THEN
        IF page_index - FILE_PER_PAGE >= 0
        THEN [page |-> page_index - FILE_PER_PAGE, req |-> NoReq, notes |-> << >>]
        ELSE [page |-> page_index, req |-> NoReq, notes |-> <<"ERROR: this is the first page.">>]
    ELSE IF tok = "q" THEN
        [page |-> NoPage, req |-> NoReq, notes |-> << >>]
    ELSE IF isdigit(tok) THEN
        IF DigitValue(tok) > FILE_PER_PAGE \/ DigitValue(tok) <= 0
        THEN [page |-> page_index, req |-> NoReq, notes |-> <<"invalid file number.">>]
        ELSE [page |-> page_index, req |-> DigitValue(tok), notes |-> << >>]
    ELSE [page |-> page_index, req |-> NoReq,
          notes |-> <<"you are currently in save recover mode.",
                      "choose the save you wish to recover.",
                      "enter the index to choose the save file">>]

\* the notifications of a sequence of messages, in order
RECURSIVE Notify(_)
Notify(notes) ==
    IF notes = << >> THEN << >>
    ELSE print_to_server(Head(notes), "") \o Notify(Tail(notes))

\* lines 339-342: the prompt, then one line per record of the page
RECURSIVE RenderPage(_, _)
RenderPage(i, last) ==
    IF i >= last THEN << >>
    ELSE print_to_server("entry", "") \o RenderPage(i + 1, last)

Min(a, b) == IF a < b THEN a ELSE b

\* seq[idx] of a Python list: a negative index counts from the end
InRange(seq, idx) == 0 - Len(seq) <= idx /\ idx < Len(seq)
PyIndex(seq, idx) == IF idx >= 0 THEN seq[idx + 1] ELSE seq[Len(seq) + idx + 1]

(* ------------------------------- state -------------------------------- *)
VARIABLES
    todo,      \* the instructions the controller still has to run
    ctl,       \* the controller process: "running", "exit0", "crashed"
    exc,       \* the exception that ended it, or ""
    server,    \* self.server: the process the controller holds
    alive,     \* the child processes that are running
    signaled,  \* the processes stop_server has sent SIGINT
    ownexit,   \* where the controller was when a child exited unsignalled, or ""
    out,       \* unread lines of self.server.stdout
    console,   \* unread lines of sys.stdin
    auth,      \* the authoritative save file ./factorio/saves/<save_name>
    archive,   \* the archive directory saves/<save_name>, in directory order
    gamedir,   \* the other files of factorio/saves/, in directory order
    now,       \* the wall clock's seconds
    gen,       \* how many times the engine has written new content
    cmd,       \* the line wget_next_msg last read from the child
    br,        \* get_requested_save's locals: save_files, n_files, page_index
    h,         \* history of the command being run (for the properties)
    act,       \* history of the last handle_user_act_to_ls call
    direct,    \* a client has called a method of the controller directly
    fwd,       \* the operator line last forwarded and what the child was sent
    sigint     \* the controller's SIGINT disposition: "default", "ignored",
               \* "discarded" (ignored, and a SIGINT has been discarded)

vars == <<todo, ctl, exc, server, alive, signaled, ownexit, out, console,
          auth, archive, gamedir, now, gen, cmd, br, h, act, direct, fwd, sigint>>

History(m, n, line, file) ==
    [n |-> n, m |-> m, file |-> file, line |-> line, ev |-> << >>, src |-> NoFile, done |-> FALSE,
     seen |-> None, lost |-> FALSE, archive0 |-> archive, auth0 |-> auth, auth1 |-> auth]

NoAct == [tok |-> "", n |-> 0, req |-> NoReq, page0 |-> 0, page1 |-> 0, sent |-> << >>]

ArchiveSizes == {0, 2, FILE_PER_PAGE, MaxArchive0}

GameDir(n) == <<OtherSave>> \o [k \in 1..n |-> AutosaveFile(k)]

NoForward == [read |-> None, wrote |-> << >>]

\* lines 390-393: __init__ has run (the archive directory exists, the child
\* has been started); signal.signal(SIGINT, SIG_IGN) is still to come
Init ==
    /\ todo = << I("signal", N(0)) >>
    /\ ctl = "running"
    /\ exc = ""
    /\ server = 1
    /\ alive = {1}
    /\ signaled = {}
    /\ ownexit = ""
    /\ out = << >>
    /\ console = << >>
    /\ auth = File(0, 0)
    /\ archive \in {OldArchive(n) : n \in ArchiveSizes}
    /\ gamedir = GameDir(MaxAuto)
    /\ now = 0
    /\ gen = 0
    /\ cmd = None
    /\ br = [save_files |-> << >>, page_index |-> 0, n_files |-> 0]
    /\ h = [n |-> 0, m |-> "", file |-> NoFile, line |-> None, ev |-> << >>, src |-> NoFile, done |-> FALSE,
            seen |-> None, lost |-> FALSE, archive0 |-> archive, auth0 |-> auth, auth1 |-> auth]
    /\ act = NoAct
    /\ direct = FALSE
    /\ fwd = NoForward
    /\ sigint = "default"

(* ------------------------------ helpers ------------------------------- *)
Running == ctl = "running"
At(op) == Running /\ todo # << >> /\ Head(todo).op = op
Arg == Head(todo).arg
Rest == Tail(todo)
Idle == Running /\ todo = << >>

\* readline() returns: a line is there, or the child's end of the pipe is closed
Readable == out # << >> \/ server \notin alive
NextLine == IF out # << >> THEN Head(out) ELSE EOF
Consumed == IF out # << >> THEN Tail(out) ELSE out

\* the events of a command are recorded, except in the browser's loop
Recorded == RestoreMethods \cup {"save_current", "restart_server", "handle_command"}
Rec(e) == IF h.m \in Recorded THEN [h EXCEPT !.ev = Append(@, e)] ELSE h

\* the directory positions a new file may take: before every file, or right
\* after a file of the same modification time (the listing is a stable sort, so
\* only the order among files of equal modification time can be seen)
Positions(dir, f) ==
    {0} \cup {p \in 1..Len(dir) : dir[p].mtime = f.mtime}

AnyEntry(e) == TRUE
NotAutosaveServer(e) == ~HasAutosaveServer(e)

\* a chat line of a player whose message starts with a verb of lines 98-160
IsCommandLine(line) ==
    /\ Matches(line)
    /\ line[3] = "[CHAT]"
    /\ line[5] \in {"!!restart", "!!shutdown", "!!la", "!!help", "!!save", "!!ls"}

\* the history after a line of the child was read and only echoed (lines 70-71,
\* 178-183): a command line read there never reaches handle_command (recorded
\* for save_current and load_last_save)
Unhandled(line) ==
    IF h.m \in {"save_current", "load_last_save"} /\ IsCommandLine(line)
    THEN [h EXCEPT !.lost = TRUE] ELSE h

\* handle_user_act_to_ls has not returned yet (its result is still to be used)
InUserAct == \E i \in 1..Len(todo) : todo[i].op = "br_after"

\* line[-1] == "finished\n" of line.split(" "); the empty string at end of
\* file splits into one empty token
FinishedAny(line) == line # EOF
Finished(line) == line # EOF /\ line[Len(line)] = "finished"

AuthInDir == [content |-> auth.content, mtime |-> auth.mtime, name |-> <<"save_name", 0>>]

(* ------------------- the controller's instructions -------------------- *)
\* print(msg, file=self.server.stdin, flush=True): BrokenPipeError when the
\* child has exited; otherwise the engine answers on its output
Write ==
    /\ At("write")
    /\ IF server \notin alive
       THEN /\ ctl' = "crashed" /\ exc' = "BrokenPipeError" /\ todo' = << >>
            /\ UNCHANGED <<out, auth, gen, h>>
       ELSE /\ todo' = Rest
            /\ UNCHANGED <<ctl, exc>>
            /\ IF Arg.msg = "/server-save"
               THEN /\ h' = Rec("save")
                    /\ \E saved \in BOOLEAN :
                         /\ saved => gen < MaxContent
                         /\ out' = out \o (IF saved THEN <<LogLine, LogLine, SavedLine>>
                                                   ELSE <<LogLine, LogLine, LogLine>>)
                         /\ auth' = IF saved THEN File(gen + 1, now) ELSE auth
                         /\ gen' = IF saved THEN gen + 1 ELSE gen
               ELSE /\ h' = Rec("notify")
                    /\ out' = Append(out, EchoLine)
                    /\ UNCHANGED <<auth, gen>>
    /\ act' = IF server \in alive /\ InUserAct
              THEN [act EXCEPT !.sent = Append(@, Arg.msg)] ELSE act
    /\ UNCHANGED <<server, alive, signaled, ownexit, console, archive, gamedir,
                   now, cmd, br, direct,
                   fwd, sigint>>

\* line = self.server.stdout.readline(), the line only echoed
ReadLine ==
    /\ At("readline")
    /\ Readable
    /\ out' = Consumed
    /\ todo' = Rest
    /\ h' = Unhandled(NextLine)
    /\ UNCHANGED <<ctl, exc, server, alive, signaled, ownexit, console, auth,
                   archive, gamedir, now, gen, cmd, br, act, direct,
                   fwd, sigint>>

\* the same, the caller given up when the save has failed
SavingFailedAborts(rest) == << >>

\* lines 189-191: "Saving failed." is printed and save_current returns to its
\* caller, which goes on with rest
SavingFailed(rest) == rest

\* lines 182-191: the third line read; copied when it ends with the marker
SaveCheck ==
    /\ At("save_check")
    /\ Readable
    /\ out' = Consumed
    /\ todo' = (IF Finished(NextLine) THEN Rest ELSE SavingFailed(Rest))
    /\ LET finished == Finished(NextLine)
           f == Entry(ArchiveName(strftime(2024, 0, now), Arg.filename, Arg.commander), auth)
       IN  IF finished
           THEN /\ \E pos \in Positions(archive, f) : archive' = PutFile(archive, f, pos)
                /\ h' = [Unhandled(NextLine) EXCEPT !.seen = NextLine]
           ELSE /\ archive' = archive
                /\ h' = [Unhandled(NextLine) EXCEPT !.seen = NextLine]
    /\ UNCHANGED <<ctl, exc, server, alive, signaled, ownexit, console, auth,
                   gamedir, now, gen, cmd, br, act, direct,
                   fwd, sigint>>

\* time.sleep(1): a second passes (the clock stops at its bound)
Sleep ==
    /\ At("sleep")
    /\ now' = IF now < MaxTime THEN now + 1 ELSE now
    /\ todo' = Rest
    /\ UNCHANGED <<ctl, exc, server, alive, signaled, ownexit, out, console, auth,
                   archive, gamedir, gen, cmd, br, h, act, direct,
                   fwd, sigint>>

\* self.server.send_signal(signal.SIGINT)
SendSignal ==
    /\ At("send_signal")
    /\ signaled' = signaled \cup {server}
    /\ todo' = Rest
    /\ UNCHANGED <<ctl, exc, server, alive, ownexit, out, console, auth,
                   archive, gamedir, now, gen, cmd, br, h, act, direct,
                   fwd, sigint>>

\* self.server.wait(): returns once the child has exited
Wait ==
    /\ At("wait")
    /\ server \notin alive
    /\ h' = Rec("stop")
    /\ todo' = Rest
    /\ UNCHANGED <<ctl, exc, server, alive, signaled, ownexit, out, console, auth,
                   archive, gamedir, now, gen, cmd, br, act, direct,
                   fwd, sigint>>

\* self.server = subprocess.Popen(...): a new process, a new pipe
Popen ==
    /\ At("Popen")
    /\ server' = server + 1
    /\ alive' = alive \cup {server + 1}
    /\ out' = << >>
    /\ h' = Rec("start")
    /\ todo' = Rest
    /\ UNCHANGED <<ctl, exc, signaled, ownexit, console, auth,
                   archive, gamedir, now, gen, cmd, br, act, direct,
                   fwd, sigint>>

\* lines 207-210
CopyLastSave ==
    /\ At("copy_last_save")
    /\ LET save_files == SelectSeq(SortDesc(archive), NotAutosaveServer)
       IN  IF save_files = << >>
           THEN /\ ctl' = "crashed" /\ exc' = "IndexError" /\ todo' = << >>
                /\ UNCHANGED <<auth, h>>
           ELSE /\ auth' = File(save_files[1].content, save_files[1].mtime)
                /\ h' = [Rec("copy") EXCEPT !.src = save_files[1]]
                /\ todo' = Rest
                /\ UNCHANGED <<ctl, exc>>
    /\ UNCHANGED <<server, alive, signaled, ownexit, out, console,
                   archive, gamedir, now, gen, cmd, br, act, direct,
                   fwd, sigint>>

\* lines 229-235
CopyAutosave ==
    /\ At("copy_autosave")
    /\ LET target == Arg.n - 1
           save_files == SelectSeq(SortDesc(gamedir \o <<AuthInDir>>), HasAutosaveMarker)
       IN  IF ~InRange(save_files, target)
           THEN /\ ctl' = "crashed" /\ exc' = "IndexError" /\ todo' = << >>
                /\ UNCHANGED <<auth, h>>
           ELSE /\ auth' = File(PyIndex(save_files, target).content,
                                PyIndex(save_files, target).mtime)
                /\ h' = [Rec("copy") EXCEPT !.src = PyIndex(save_files, target)]
                /\ todo' = Rest
                /\ UNCHANGED <<ctl, exc>>
    /\ UNCHANGED <<server, alive, signaled, ownexit, out, console,
                   archive, gamedir, now, gen, cmd, br, act, direct,
                   fwd, sigint>>

\* line 320: the file now at the chosen path is copied
CopyRequested ==
    /\ At("copy_requested")
    /\ LET src == CHOOSE e \in {archive[i] : i \in 1..Len(archive)} : e.name = Arg.name
       IN  /\ auth' = File(src.content, src.mtime)
           /\ h' = [Rec("copy") EXCEPT !.src = src]
    /\ todo' = Rest
    /\ UNCHANGED <<ctl, exc, server, alive, signaled, ownexit, out, console,
                   archive, gamedir, now, gen, cmd, br, act, direct,
                   fwd, sigint>>

\* a method is entered: its history starts
Enter ==
    /\ At("enter")
    /\ h' = History(Arg.m, Arg.n, None, Arg.file)
    /\ todo' = Rest
    /\ UNCHANGED <<ctl, exc, server, alive, signaled, ownexit, out, console, auth,
                   archive, gamedir, now, gen, cmd, br, act, direct,
                   fwd, sigint>>

\* a restore method returns
Leave ==
    /\ At("leave")
    /\ h' = [h EXCEPT !.done = TRUE, !.auth1 = auth]
    /\ todo' = Rest
    /\ UNCHANGED <<ctl, exc, server, alive, signaled, ownexit, out, console, auth,
                   archive, gamedir, now, gen, cmd, br, act, direct,
                   fwd, sigint>>

\* line 393: signal.signal(signal.SIGINT, signal.SIG_IGN)
IgnoreSigint ==
    /\ At("signal")
    /\ sigint' = "ignored"
    /\ todo' = Rest
    /\ UNCHANGED <<ctl, exc, server, alive, signaled, ownexit, out, console, auth,
                   archive, gamedir, now, gen, cmd, br, h, act, direct, fwd>>

(* --------------------------- wget_next_msg ---------------------------- *)
StdoutReady == out # << >> \/ server \notin alive
StdinReady == console # << >>

\* lines 247-250: select returns the streams that are readable, the child's
\* output first; the instruction's argument is whether a handler was passed
Select ==
    /\ At("select")
    /\ (StdoutReady \/ StdinReady)
    /\ cmd' = None
    /\ todo' = (IF StdoutReady THEN << I("readcmd", Arg) >> ELSE << >>)
               \o (IF StdinReady THEN << I("forward", N(0)) >> ELSE << >>)
               \o Rest
    /\ UNCHANGED <<ctl, exc, server, alive, signaled, ownexit, out, console, auth,
                   archive, gamedir, now, gen, br, h, act, direct,
                   fwd, sigint>>

\* lines 256-259: the child's line is read, echoed and handed to the handler
ReadCmd ==
    /\ At("readcmd")
    /\ Readable
    /\ out' = Consumed
    /\ cmd' = NextLine
    /\ IF Arg.b
       THEN LET code == handle_command(NextLine, archive)
            IN  IF code # << >> /\ Head(code).op = "raise"
                THEN /\ ctl' = "crashed" /\ exc' = Head(code).arg.s /\ todo' = << >>
                     /\ h' = History("handle_command", 0, NextLine, NoFile)
                ELSE /\ todo' = code \o Rest
                     /\ h' = History("handle_command", 0, NextLine, NoFile)
                     /\ UNCHANGED <<ctl, exc>>
       ELSE /\ todo' = Rest
            /\ UNCHANGED <<ctl, exc, h>>
    /\ UNCHANGED <<server, alive, signaled, ownexit, console, auth,
                   archive, gamedir, now, gen, br, act, direct,
                   fwd, sigint>>

\* lines 253-254: the operator's line is written to the child's input
Forward ==
    /\ At("forward")
    /\ console # << >>
    /\ console' = Tail(console)
    /\ IF server \notin alive
       THEN /\ ctl' = "crashed" /\ exc' = "BrokenPipeError" /\ todo' = << >>
            /\ fwd' = fwd
       ELSE /\ todo' = Rest
            /\ fwd' = [read |-> Head(console),
                       wrote |-> print_lines(readline(Head(console)))]
            /\ UNCHANGED <<ctl, exc>>
    /\ UNCHANGED <<server, alive, signaled, ownexit, out, auth,
                   archive, gamedir, now, gen, cmd, br, h, act, direct,
                   sigint>>

\* lines 169-170: the poll after each iteration of run's loop
Poll ==
    /\ At("poll")
    /\ IF server \notin alive
       THEN /\ ctl' = "exit0" /\ todo' = << >>
       ELSE /\ todo' = wget_next_msg(TRUE) \o << I("poll", N(0)) >>
            /\ UNCHANGED ctl
    /\ UNCHANGED <<exc, server, alive, signaled, ownexit, out, console, auth,
                   archive, gamedir, now, gen, cmd, br, h, act, direct,
                   fwd, sigint>>

(* ------------------------ get_requested_save -------------------------- *)
\* lines 330-333 and 336
ListDir ==
    /\ At("listdir")
    /\ br' = [save_files |-> SortDesc(archive), page_index |-> 0, n_files |-> Len(archive)]
    /\ todo' = Rest
    /\ UNCHANGED <<ctl, exc, server, alive, signaled, ownexit, out, console, auth,
                   archive, gamedir, now, gen, cmd, h, act, direct,
                   fwd, sigint>>

\* lines 339-346: the page is shown, then the next message is awaited
Render ==
    /\ At("render")
    /\ todo' = print_to_server("enter the index to choose the save file", "")
               \o RenderPage(br.page_index, Min(br.page_index + FILE_PER_PAGE, br.n_files))
               \o wget_next_msg(FALSE) \o << I("br_check", N(0)) >>
               \o Rest
    /\ UNCHANGED <<ctl, exc, server, alive, signaled, ownexit, out, console, auth,
                   archive, gamedir, now, gen, cmd, br, h, act, direct,
                   fwd, sigint>>

\* cmd.split(" "): len(cmd) > 2 and cmd[2] == "[CHAT]"; the last token of
\* the line carries the newline, so a third token that is the last is no match
IsChatSplit(line) == Len(line) > 3 /\ line[3] = "[CHAT]"

\* lines 347-356: only a [CHAT] line of the child ends the wait; cmd becomes
\* its last word, or is assigned anew by the next wget_next_msg
BrCheck ==
    /\ At("br_check")
    /\ todo' = IF cmd # None /\ IsChatSplit(cmd)
               THEN << I("br_act", S(cmd[Len(cmd)])) >> \o Rest
               ELSE wget_next_msg(FALSE) \o << I("br_check", N(0)) >> \o Rest
    /\ cmd' = None
    /\ UNCHANGED <<ctl, exc, server, alive, signaled, ownexit, out, console, auth,
                   archive, gamedir, now, gen, br, h, act, direct,
                   fwd, sigint>>

\* line 356: handle_user_act_to_ls is called and sends its notifications
BrAct ==
    /\ At("br_act")
    /\ LET r == handle_user_act_to_ls(Arg.s, br.page_index, br.n_files)
       IN  /\ act' = [tok |-> Arg.s, n |-> br.n_files, req |-> r.req,
                      page0 |-> br.page_index, page1 |-> r.page, sent |-> << >>]
           /\ todo' = Notify(r.notes) \o << I("br_after", r) >> \o Rest
    /\ UNCHANGED <<ctl, exc, server, alive, signaled, ownexit, out, console, auth,
                   archive, gamedir, now, gen, cmd, br, h, direct,
                   fwd, sigint>>

\* lines 356-365: quit, a selection, or the page is shown again
BrAfter ==
    /\ At("br_after")
    /\ br' = [br EXCEPT !.page_index = Arg.page]
    /\ IF Arg.page = NoPage
       THEN /\ todo' = print_to_server("quit save recover mode.", "") \o Rest
            /\ UNCHANGED <<ctl, exc>>
       ELSE IF Arg.req # NoReq
       THEN IF ~InRange(br.save_files, Arg.page + Arg.req - 1)
            THEN /\ ctl' = "crashed" /\ exc' = "IndexError" /\ todo' = << >>
            ELSE /\ todo' = load_requested_save(
                                PyIndex(br.save_files, Arg.page + Arg.req - 1)) \o Rest
                 /\ UNCHANGED <<ctl, exc>>
       ELSE /\ todo' = << I("render", N(0)) >> \o Rest
            /\ UNCHANGED <<ctl, exc>>
    /\ UNCHANGED <<server, alive, signaled, ownexit, out, console, auth,
                   archive, gamedir, now, gen, cmd, h, act, direct,
                   fwd, sigint>>

(* ------------------- the methods a client may call -------------------- *)
\* line 396: controller.run()
CallRun ==
    /\ Idle
    /\ ~direct
    /\ todo' = wget_next_msg(TRUE) \o << I("poll", N(0)) >>
    /\ UNCHANGED <<ctl, exc, server, alive, signaled, ownexit, out, console, auth,
                   archive, gamedir, now, gen, cmd, br, h, act, direct,
                   fwd, sigint>>

Call(m, line, code) ==
    /\ Idle
    /\ ~direct
    /\ direct' = TRUE
    /\ h' = History(m, 0, line, NoFile)
    /\ todo' = code
    /\ UNCHANGED <<ctl, exc, server, alive, signaled, ownexit, out, console, auth,
                   archive, gamedir, now, gen, cmd, br, act,
                   fwd, sigint>>

\* save_current's arguments: a player's save, or the defaults of line 172
SaveArgs == { <<"backup1", "alice">>, <<"request_save", "alice">>, <<"autosave", "server">> }

CallSaveCurrent == \E a \in SaveArgs : Call("save_current", a, save_current(a[1], a[2]))
\* save_current called once more with the same arguments after it has
\* returned (taken when the first save was archived, the child runs and no
\* line is left unread)
CallSaveCurrentAgain ==
    /\ Idle
    /\ direct
    /\ h.m = "save_current" /\ h.n = 0
    /\ h.seen # None /\ h.seen # EOF /\ Finished(h.seen)
    /\ server \in alive /\ out = << >> /\ console = << >>
    /\ h' = History("save_current", 1, h.line, NoFile)
    /\ todo' = save_current(h.line[1], h.line[2])
    /\ UNCHANGED <<ctl, exc, server, alive, signaled, ownexit, out, console, auth,
                   archive, gamedir, now, gen, cmd, br, act, direct,
                   fwd, sigint>>
\* get_requested_save called after save_current() has returned (taken when
\* the save was archived, the child runs, no line is left unread and the
\* archive holds two older records and the entry just saved)
CallGetRequestedSaveAfterSave ==
    /\ Idle
    /\ direct
    /\ h.m = "save_current" /\ h.n = 0 /\ h.line = <<"autosave", "server">>
    /\ h.seen # None /\ h.seen # EOF /\ Finished(h.seen)
    /\ server \in alive /\ out = << >> /\ console = << >>
    /\ Len(archive) = 3
    /\ todo' = get_requested_save
    /\ UNCHANGED <<ctl, exc, server, alive, signaled, ownexit, out, console, auth,
                   archive, gamedir, now, gen, cmd, br, h, act, direct,
                   fwd, sigint>>
CallRestartServer == Call("restart_server", None, restart_server)
CallLoadLastSave == Call("load_last_save", None, load_last_save)
CallLoadAutosave ==
    \E target \in 0..(MaxAuto + 1) : Call("load_autosave", None, load_autosave(target))
CallLoadRequestedSave ==
    \E i \in 1..Len(archive) :
        Call("load_requested_save", None, load_requested_save(SortDesc(archive)[i]))
CallGetRequestedSave == Call("get_requested_save", None, get_requested_save)

(* --------------------------- the environment -------------------------- *)
\* What the environment does is seen by the controller only in its next
\* instruction, so an event of the environment is taken just before an
\* instruction that can see it.  A line of the child is queued before a write
\* (the answer queues behind it) or before select; queued at any other moment
\* it stands behind the lines already there and is read as if it had been
\* queued before the next write or select.  An operator line comes before
\* select, a second before the engine or the controller reads the clock, the
\* exit of a child before an instruction that writes to it, reads from it or
\* asks for its state.
Before(ops) == Running /\ todo # << >> /\ Head(todo).op \in ops

\* a player or the engine writes a line to the child's output
ChildOutput ==
    /\ Before({"write", "select"})
    /\ server \in alive
    /\ Len(out) < MaxOut
    /\ \E line \in ChildLines : out' = Append(out, line)
    /\ UNCHANGED <<todo, ctl, exc, server, alive, signaled, ownexit, console, auth,
                   archive, gamedir, now, gen, cmd, br, h, act, direct,
                   fwd, sigint>>

\* what the controller is doing: waiting for a line in run's loop, waiting for
\* a chat line in get_requested_save's loop (lines 344-354), or something else
Waiting ==
    IF Head(todo).op \in {"select", "readcmd", "forward", "br_check"}
       /\ \E i \in 1..Len(todo) : todo[i].op = "br_check"
    THEN "browser"
    ELSE IF Head(todo).op = "select" THEN "run" ELSE "busy"

\* a child process exits: on its own, or after stop_server's signal
ChildExit ==
    /\ Before({"write", "readline", "save_check", "wait", "select", "forward", "poll"})
    /\ \E p \in alive :
         /\ alive' = alive \ {p}
         /\ ownexit' = IF p \in signaled THEN ownexit ELSE Waiting
    /\ UNCHANGED <<todo, ctl, exc, server, signaled, out, console, auth,
                   archive, gamedir, now, gen, cmd, br, h, act, direct,
                   fwd, sigint>>

\* the operator types a line
OperatorLine ==
    /\ Before({"select"})
    /\ Len(console) < MaxConsole
    /\ \E line \in ConsoleLines : console' = Append(console, line)
    /\ UNCHANGED <<todo, ctl, exc, server, alive, signaled, ownexit, out, auth,
                   archive, gamedir, now, gen, cmd, br, h, act, direct,
                   fwd, sigint>>

\* a second passes: before the engine writes the save file (which takes the
\* clock as its modification time) or save_current reads the clock
Tick ==
    /\ Before({"write", "save_check"})
    /\ At("write") => Arg.msg = "/server-save"
    /\ now < MaxTime
    /\ now' = now + 1
    /\ UNCHANGED <<todo, ctl, exc, server, alive, signaled, ownexit, out, console, auth,
                   archive, gamedir, gen, cmd, br, h, act, direct,
                   fwd, sigint>>

\* a SIGINT is delivered to the controller process: under the default
\* disposition Python raises KeyboardInterrupt in the main thread; once the
\* signal is ignored it is discarded, whatever the controller is doing (taken
\* here at the poll of run's loop)
Interrupt ==
    /\ Before({"signal", "poll"})
    /\ sigint # "discarded"
    /\ IF sigint = "default"
       THEN /\ ctl' = "crashed" /\ exc' = "KeyboardInterrupt" /\ todo' = << >>
            /\ sigint' = sigint
       ELSE /\ sigint' = "discarded"
            /\ UNCHANGED <<ctl, exc, todo>>
    /\ UNCHANGED <<server, alive, signaled, ownexit, out, console, auth,
                   archive, gamedir, now, gen, cmd, br, h, act, direct, fwd>>

(* --------------------------- specifications --------------------------- *)
Controller ==
    \/ Write \/ ReadLine \/ SaveCheck \/ Sleep \/ SendSignal \/ Wait \/ Popen
    \/ CopyLastSave \/ CopyAutosave \/ CopyRequested \/ Enter \/ Leave
    \/ Select \/ ReadCmd \/ Forward \/ Poll
    \/ ListDir \/ Render \/ BrCheck \/ BrAct \/ BrAfter \/ IgnoreSigint

Client ==
    \/ CallRun \/ CallSaveCurrent \/ CallSaveCurrentAgain
    \/ CallGetRequestedSaveAfterSave
    \/ CallRestartServer \/ CallLoadLastSave
    \/ CallLoadAutosave \/ CallLoadRequestedSave \/ CallGetRequestedSave

Environment == ChildOutput \/ ChildExit \/ OperatorLine \/ Tick \/ Interrupt

Next == Controller \/ Client \/ Environment

Spec == Init /\ [][Next]_vars

\* the controller is one thread that runs whenever it can
\* started on an archive of two records and a game directory with autosaves
InitTwoRecords == Init /\ archive = OldArchive(2) /\ gamedir = GameDir(MaxAuto)
FairSpec == InitTwoRecords /\ [][Next]_vars /\ WF_vars(Controller)

(* ----------------------------- properties ----------------------------- *)
Range(seq) == {seq[i] : i \in 1..Len(seq)}
Count(e, seq) == Cardinality({i \in 1..Len(seq) : seq[i] = e})
Precedes(a, b, seq) == \E i, j \in 1..Len(seq) : i < j /\ seq[i] = a /\ seq[j] = b
\* a line whose last word is the success marker
EndsWithMarker(line) == line # None /\ line # EOF /\ line[Len(line)] = "finished"
\* the program as started from the command line: run() and nothing else
AsProgram == ~direct
\* handle_command has returned to wget_next_msg
Handled ==
    /\ AsProgram /\ Running /\ h.m = "handle_command"
    /\ todo # << >> /\ Head(todo).op \in {"forward", "poll"}
\* DATE TIME [CHAT] U !!save L
IsSaveCommand(line) == Len(line) = 6 /\ line[3] = "[CHAT]" /\ line[5] = "!!save"
NewEntries == Range(archive) \ Range(h.archive0)

\* C1: after handle_command has handled a line DATE TIME [CHAT] U !!save L,
\* unless the save was seen not to be confirmed, the archive has exactly one
\* new entry, which decodes to label L and author U.
C1_SaveCommandArchives ==
    (Handled /\ IsSaveCommand(h.line) /\ (h.seen = None \/ EndsWithMarker(h.seen)))
    => /\ Cardinality(NewEntries) = 1
       /\ Len(archive) = Len(h.archive0) + 1
       /\ \A e \in NewEntries :
             /\ parse_file_name(e.name).save_name = Text(h.line[6])
             /\ parse_file_name(e.name).save_user = h.line[4]

\* C2: in a restore there is at most one safety-backup attempt, the
\* authoritative file is written once and only after that attempt, and when
\* the restore returns the authoritative file holds the content of the source
\* that was copied (for load_requested_save: of the file at the path passed).
C2_OneBackupThenCopy ==
    h.m \in RestoreMethods
    => /\ Count("save", h.ev) <= 1
       /\ Count("copy", h.ev) <= 1
       /\ "copy" \in Range(h.ev) => Precedes("save", "copy", h.ev)
       /\ h.done => /\ Count("save", h.ev) = 1
                    /\ Count("copy", h.ev) = 1
                    /\ h.auth1.content = h.src.content
                    /\ auth.content = h.src.content
                    /\ h.m = "load_requested_save" => h.src.name = h.file.name

C2_RestoreCompleted ==
    h.m = "load_last_save" /\ h.done /\ h.auth1.content # h.auth0.content

FiveSteps == <<"save", "notify", "stop", "copy", "start">>
CopyOps == {"copy_last_save", "copy_autosave", "copy_requested"}

\* C3 as claimed: every restore path that completes has performed the five
\* steps save, notify, stop, copy, start in this order.
C3_SameFiveSteps ==
    (h.m \in RestoreMethods /\ h.done) => h.ev = FiveSteps

\* C3 as amended: load_last_save and load_autosave perform save, notify, stop,
\* copy, start in this order; load_requested_save performs save, stop, copy,
\* start and sends no notification in between; on every path the
\* authoritative file is written only while no child is running.
C3_StepsPerPath ==
    /\ (h.m \in {"load_last_save", "load_autosave"} /\ h.done) => h.ev = FiveSteps
    /\ (h.m = "load_requested_save" /\ h.done) => h.ev = <<"save", "stop", "copy", "start">>
    /\ (Running /\ todo # << >> /\ Head(todo).op \in CopyOps) => alive = {}

C3_RequestedRestoreCompleted ==
    h.m = "load_requested_save" /\ h.done /\ alive = {server}

NAutosaves == Len(SelectSeq(gamedir, HasAutosaveMarker))

\* C4: load_autosave(n) with n outside 1..(number of autosave files) stops
\* no child, copies nothing, starts nothing and raises nothing.
C4_OutOfRangeAborts ==
    (h.m = "load_autosave" /\ h.n \notin 1..NAutosaves)
    => /\ Range(h.ev) \cap {"stop", "copy", "start"} = {}
       /\ exc # "IndexError"

\* C5: once the child has exited on its own while the controller waited for
\* a line, in run's loop or in the save browser, the controller eventually
\* stops running (it terminates, or the method returns), and it starts no
\* new child.
C5_TerminatesAfterChildExit ==
    /\ (ownexit \in {"run", "browser"}) ~> (todo = << >>)
    /\ [][(ownexit \in {"run", "browser"}) => (server' = server)]_vars

\* C6: the running program ends only by exit status 0, after the child has
\* exited; never by an exception.
C6_ExitsOnlyWithStatus0 ==
    AsProgram => /\ ctl # "crashed"
                 /\ ctl = "exit0" => server \notin alive

\* C7: when the third line save_current reads does not end with the marker,
\* nothing is copied: the archive is as it was when the command started, and
\* after a plain save_current the authoritative file is as it was or as the
\* engine wrote it, and the child has not been signalled or replaced (it
\* runs, unless it exited on its own).
C7_NoCopyWithoutMarker ==
    (h.seen # None /\ ~EndsWithMarker(h.seen))
    => /\ archive = h.archive0
       /\ h.m = "save_current"
          => /\ server = 1 /\ signaled = {}
             /\ server \in alive \/ ownexit # ""
             /\ auth = h.auth0 \/ (gen > 0 /\ auth.content = gen)

C7_SaveNotConfirmed ==
    h.m = "save_current" /\ todo = << >> /\ h.seen = LogLine /\ server \in alive

\* the records shown on the page that starts at page_index
Shown(page_index, n_files) ==
    IF page_index >= n_files THEN 0 ELSE Min(FILE_PER_PAGE, n_files - page_index)

\* C8: a numeric selection larger than the number of records shown on the
\* page is rejected with the notification, selects nothing and raises nothing.
C8_SelectionBeyondPageRejected ==
    (isdigit(act.tok) /\ DigitValue(act.tok) > Shown(act.page0, act.n))
    => /\ act.req = NoReq
       /\ exc # "IndexError"
       /\ At("br_after") => act.sent = <<"invalid file number.">>

\* the first record of the last page of n records
LastPageStart(n) == IF n = 0 THEN 0 ELSE ((n - 1) \div FILE_PER_PAGE) * FILE_PER_PAGE

AtBoundary ==
    \/ act.tok = "m" /\ act.page0 = LastPageStart(act.n)
    \/ act.tok = "n" /\ act.page0 = 0

\* C9: next-page on the last page and prev-page on the first page leave
\* page_index as it was and send the boundary notification, so the same input
\* again meets the same page.
C9_BoundaryKeepsPage ==
    /\ AtBoundary
       => /\ act.page1 = act.page0
          /\ At("br_after")
             => act.sent = << IF act.tok = "m" THEN "ERROR: this is the last page."
                                             ELSE "ERROR: this is the first page." >>
          /\ At("render") => br.page_index = act.page0
    /\ \A n \in 0..Len(archive) :
          /\ handle_user_act_to_ls("m", LastPageStart(n), n)
                = [page |-> LastPageStart(n), req |-> NoReq,
                   notes |-> <<"ERROR: this is the last page.">>]
          /\ handle_user_act_to_ls("n", 0, n)
                = [page |-> 0, req |-> NoReq,
                   notes |-> <<"ERROR: this is the first page.">>]

C9_NextOnLastPage ==
    /\ act.tok = "m" /\ act.page0 = LastPageStart(act.n) /\ act.page0 > 0
    /\ At("render")

\* C10: at most one child runs, and it is the one the controller holds; a
\* child is started only when the one held has been signalled and has exited.
C10_AtMostOneChild ==
    /\ Cardinality(alive) <= 1
    /\ alive \subseteq {server}
    /\ At("Popen") => (server \in signaled /\ alive = {})

C10_Restarted ==
    h.m = "restart_server" /\ server = 2 /\ alive = {2} /\ todo = << >>

\* C11: the child is sent each operator line exactly as it was read: one
\* line, with the same words, for the one line read.
C11_ForwardedAsRead ==
    fwd.read # None => fwd.wrote = <<fwd.read>>

\* DATE TIME [KIND] USER MESSAGE
LogGrammar(line) ==
    /\ Len(line) >= 5
    /\ line[1] = DATE /\ line[2] = TIME
    /\ line[3] \in {"[CHAT]", "[JOIN]", "[LEAVE]"}
Verbs == {"!!restart", "!!shutdown", "!!la", "!!help", "!!save", "!!ls"}
\* a line that is no command: outside the grammar, of kind JOIN or LEAVE, or
\* a CHAT line whose first message word is not a verb
NoCommand(line) ==
    \/ ~LogGrammar(line)
    \/ line[3] \in {"[JOIN]", "[LEAVE]"}
    \/ line[3] = "[CHAT]" /\ line[5] \notin Verbs
\* the instructions of wget_next_msg and run themselves
LoopOps == {"select", "readcmd", "forward", "poll"}

\* C12: once handle_command has been given a line that is no command, nothing
\* is written to the child, no child is signalled or started, no file is
\* copied, and the handler has left nothing to do.
C12_NoCommandNoEffect ==
    (h.m = "handle_command" /\ NoCommand(h.line))
    => /\ h.ev = << >>
       /\ archive = h.archive0
       /\ auth = h.auth0
       /\ server = 1 /\ signaled = {}
       /\ \A i \in 1..Len(todo) : todo[i].op \in LoopOps

C12_UnknownVerbHandled ==
    /\ h.m = "handle_command"
    /\ h.line = ChatLine("alice", <<"!!foobar">>)
    /\ At("poll")

\* the files of the engine's save directory whose name has the autosave marker
Autosaves == {f \in Range(gamedir) : f.name[1] = "_autosave"}
\* the one with exactly n - 1 of them modified more recently
NthNewestAutosave(n) ==
    CHOOSE f \in Autosaves : Cardinality({g \in Autosaves : g.mtime > f.mtime}) = n - 1

\* C13: load_autosave(n) with 1 <= n <= (number of autosave files) copies the
\* n-th most recently modified autosave file of the engine's save directory,
\* never an entry of the archive, and on return the authoritative file has
\* that file's content.
C13_NthNewestAutosave ==
    (h.m = "load_autosave" /\ h.n \in 1..Cardinality(Autosaves) /\ "copy" \in Range(h.ev))
    => /\ h.src = NthNewestAutosave(h.n)
       /\ \A e \in Range(archive) : e.name # h.src.name
       /\ h.done => auth.content = NthNewestAutosave(h.n).content

C13_SecondAutosaveLoaded ==
    h.m = "load_autosave" /\ h.n = 2 /\ h.done /\ Cardinality(Autosaves) >= 2

\* an archive entry written by a safety backup: label autosave, author server
AutosaveAuthored(e) ==
    /\ parse_file_name(e.name).save_user = "server"
    /\ parse_file_name(e.name).save_name = Join(" ", <<"autosave">>)
ManualEntries == {e \in Range(archive) : ~AutosaveAuthored(e)}

\* C14: load_last_save copies an archive entry that is not autosave-authored
\* and has the latest modification time among those; it is not the safety
\* backup this restore archived, and on return the authoritative file has its
\* content.
C14_NewestManualEntry ==
    (h.m = "load_last_save" /\ "copy" \in Range(h.ev))
    => /\ h.src \in ManualEntries
       /\ \A e \in ManualEntries : e.mtime <= h.src.mtime
       /\ h.src \notin NewEntries
       /\ h.done => auth.content = h.src.content

C14_RestoredPastBackup ==
    /\ h.m = "load_last_save" /\ h.done
    /\ \E e \in NewEntries : AutosaveAuthored(e) /\ e.mtime > h.src.mtime

\* the archive with older records behind its own, total records in all: the
\* record at position pos of the listing is labelled old, the others backup1
LongArchive(pos, total) ==
    archive \o [k \in 1..(total - Len(archive)) |->
                  Entry(ArchiveName(strftime(2023, k, 0),
                                    IF k + Len(archive) = pos THEN "old" ELSE "backup1",
                                    "alice"),
                        File(k, 0 - 50 - k))]
Restores(code) == \E i \in 1..Len(code) : code[i].op = "copy_requested"

\* C15: !!ls old restores the record labelled old exactly when it is among
\* the MAX_MANUAL_SAVE most recently modified records of the archive; when it
\* is not, the only thing done is one notification.
C15_LookupAmongHundred ==
    \A pos \in {MAX_MANUAL_SAVE, MAX_MANUAL_SAVE + 1, MAX_MANUAL_SAVE + 2} :
        LET code == Dispatch(<<"!!ls", "old">>, "alice",
                             LongArchive(pos, MAX_MANUAL_SAVE + 2))
        IN  /\ Restores(code) <=> pos <= MAX_MANUAL_SAVE
            /\ ~Restores(code) => Len(code) = Len(print_to_server("", ""))

UnderscoreFree(tok) == Len(SplitUnderscore(tok)) = 1
\* labels and authors without an underscore
PlainWords == {"backup1", "autosave", "old", "alice", "server", "bob"}

\* C16: the archive name save_current(label, author) writes, for a label and
\* an author without underscore, decodes to that label, that author and the
\* six words of the time stamp: for the entry a call has just archived, and
\* for every plain label, author and second of the clock.
C16_NameRoundTrip ==
    /\ (h.m = "save_current" /\ h.line # None
        /\ UnderscoreFree(h.line[1]) /\ UnderscoreFree(h.line[2]))
       => \A e \in NewEntries :
             /\ parse_file_name(e.name).save_name = Text(h.line[1])
             /\ parse_file_name(e.name).save_user = h.line[2]
             /\ \E t \in 0..now : parse_file_name(e.name).save_time = strftime(2024, 0, t)
    /\ At("save_check")
       => \A label \in PlainWords, author \in PlainWords, t \in 0..now :
          parse_file_name(ArchiveName(strftime(2024, 0, t), label, author))
            = [save_name |-> Text(label), save_user |-> author,
               save_time |-> strftime(2024, 0, t)]

C16_PlainSaveArchived ==
    /\ h.m = "save_current" /\ h.line = <<"backup1", "alice">>
    /\ NewEntries # {} /\ todo = << >>

RestoreOps == {"save_check", "send_signal", "wait", "copy_requested", "Popen"}
\* get_requested_save has been left and load_requested_save was not entered
BrowserLeftWithoutRestore == direct /\ h.m = "get_requested_save" /\ todo = << >>

\* quit in the browser: nothing is saved, stopped, copied or started
C17_QuitRestoresNothing ==
    (h.m = "get_requested_save" /\ act.tok = "q")
    => /\ archive = h.archive0
       /\ auth = h.auth0
       /\ server = 1 /\ signaled = {}
       /\ server \in alive \/ ownexit # ""
       /\ \A i \in 1..Len(todo) : todo[i].op \notin RestoreOps

\* C17: quit in the browser restores nothing (nothing is saved, stopped,
\* copied or started, the child runs unless it exited on its own), and while
\* the child has not exited the browser is left only on quit or, into
\* load_requested_save, on a selection of a record shown on the page.
C17_QuitOrValidSelection ==
    /\ C17_QuitRestoresNothing
    /\ (BrowserLeftWithoutRestore /\ ownexit = "") => act.tok = "q"
    /\ (direct /\ h.m = "load_requested_save" /\ act.tok # "")
       => DigitValue(act.tok) \in 1..Shown(act.page0, act.n)

\* C18: no SIGINT delivered to the controller after the child was spawned
\* terminates the controller, and the controller exits only once the child
\* has exited.
C18_SigintNeverTerminates ==
    /\ exc # "KeyboardInterrupt"
    /\ ctl = "exit0" => (server \notin alive /\ sigint # "default")

\* a load-autosave command whose argument is not an integer
MalformedLoadAutosave(line) ==
    /\ LogGrammar(line) /\ line[3] = "[CHAT]"
    /\ Len(line) >= 6 /\ line[5] = "!!la" /\ ~isdigit(line[6])

C20_NoCommandLost == ~h.lost

\* an instruction of wget_next_msg that hands the child's line to handle_command
Dispatching(i) == todo[i].op \in {"select", "readcmd"} /\ todo[i].arg = B(TRUE)

\* C21: handle_command is entered only from run's loop with no command still
\* executing: every pending read that dispatches is followed only by the
\* loop's own instructions; a child line read while the browser waits is not
\* handed to handle_command; and at most one restore, with one copy over the
\* authoritative save file, is in flight.
C21_OneCommandInFlight ==
    /\ \A i \in 1..Len(todo) :
         Dispatching(i) => \A j \in i..Len(todo) : todo[j].op \in LoopOps
    /\ (At("br_check") /\ cmd # None) => h.m = "get_requested_save"
    /\ Cardinality({i \in 1..Len(todo) : todo[i].op = "leave"}) <= 1
    /\ Cardinality({i \in 1..Len(todo) : todo[i].op \in CopyOps}) <= 1

C21_CommandLineReadInBrowser ==
    /\ At("br_check")
    /\ h.m = "get_requested_save"
    /\ cmd = ChatLine("alice", <<"!!save", "backup1">>)

\* page_index is the start of a page of a listing of n_files records
PageStart(page_index, n_files) ==
    /\ page_index % FILE_PER_PAGE = 0
    /\ page_index >= 0
    /\ n_files > 0 => page_index < n_files

\* what a player may answer in the browser, the rejected numbers included
BrowserInputs == {"m", "n", "1", "3", "0", "7", "abc", "backup1", "!!foobar"}

\* C22: while get_requested_save has not returned, page_index is a multiple
\* of the page size, is not negative and, when the listing has records, is
\* below their number; every input other than quit at a page start gives a
\* page start.
C22_PageIndexOnPage ==
    /\ (h.m = "get_requested_save" /\ br.page_index # NoPage)
       => PageStart(br.page_index, br.n_files)
    /\ At("br_act")
       => \A p \in {k * FILE_PER_PAGE : k \in 0..(Len(archive) \div FILE_PER_PAGE)} :
          \A tok \in BrowserInputs :
             PageStart(p, Len(archive))
             => PageStart(handle_user_act_to_ls(tok, p, Len(archive)).page, Len(archive))

C22_BackFromLastPage ==
    /\ h.m = "get_requested_save"
    /\ At("render")
    /\ act.tok = "n" /\ act.page0 = 2 * FILE_PER_PAGE
    /\ br.page_index = FILE_PER_PAGE

\* a step of a restore has been taken or is still to be taken
StepTakenOrPending(ev, ops) ==
    \/ ev \in Range(h.ev)
    \/ \E i \in 1..Len(todo) : todo[i].op \in ops

\* the safety backup of the restore being run has failed
BackupFailed == h.m \in RestoreMethods /\ h.seen # None /\ ~EndsWithMarker(h.seen)

\* C23: once the safety backup of a restore has failed (nothing archived) and
\* no exception has been raised, the stop of the child, the copy of the source
\* and the start of a child have each been done or are still to be done, and
\* when the restore returns they have been done in this order, the
\* authoritative file holds the source's content and a new child is held.
C23_RestoreProceedsAfterFailedBackup ==
    (BackupFailed /\ exc = "")
    => /\ archive = h.archive0
       /\ StepTakenOrPending("stop", {"wait"})
       /\ StepTakenOrPending("copy", CopyOps)
       /\ StepTakenOrPending("start", {"Popen"})
       /\ h.done => /\ Precedes("stop", "copy", h.ev)
                    /\ Precedes("copy", "start", h.ev)
                    /\ h.auth1.content = h.src.content
                    /\ server = 2 /\ 1 \notin alive

C23_RestoredWithoutBackup ==
    /\ BackupFailed /\ h.done
    /\ h.m = "load_autosave"
    /\ h.auth1.content # h.auth0.content

C23_RequestedRestoredWithoutBackup ==
    BackupFailed /\ h.done /\ h.m = "load_requested_save"

C23_LastSaveRestoredWithoutBackup ==
    BackupFailed /\ h.done /\ h.m = "load_last_save"

\* C24: every entry that was in the archive when the command being run
\* started is still there, with its name and its content.
C24_EntriesKept ==
    \A e \in Range(h.archive0) :
        \E k \in Range(archive) : k.name = e.name /\ k.content = e.content

\* the record shown as [act.req] on the page of the listing taken on entry
Displayed == br.save_files[act.page0 + act.req]

\* C25: a restore started by a selection in the browser is given the record
\* shown under the number chosen, element page_index + k - 1 of the listing
\* taken when the browser was entered, and when it returns the authoritative
\* file holds the content that record had in that listing.
C25_SelectedRecordRestored ==
    (h.m = "load_requested_save" /\ act.req # NoReq)
    => /\ h.file = Displayed
       /\ h.done => h.auth1.content = Displayed.content

====
